---- MODULE Spec2Model ----
(* Dual-provider image generation: the error classifier, the HuggingFace    *)
(* (primary) and Cloudflare (fallback) adapters and ProviderManager.generate *)
(* of src/lib/providers.                                                     *)
(*                                                                           *)
(* An optional value (a TypeScript `x?: T`) is a sequence of length 0 or 1:  *)
(* None is `undefined`, Some(v) is a present value.                          *)
EXTENDS Integers, Sequences, FiniteSets, TLC

None == <<>>
Some(v) == <<v>>

\* ---------------------------------------------------------------- bounds
\* Largest Retry-After value (seconds) a backend sends in the model.
MaxRetryHint == 2
\* Range of HTTP statuses handed to the classifiers on their own.
MinStatus == 100
MaxStatus == 599

\* ---------------------------------------------------------------- inputs
Prompts == {"cat", "dog"}
Styles == {"default", "warm"}
NegativePrompts == {None, Some("blurry")}
Timeouts == {None, Some(1000)}
OptionsSet == [style : Styles, negativePrompt : NegativePrompts, timeout : Timeouts]

\* HTTP statuses a backend answers with.
Statuses == {200, 400, 401, 402, 403, 404, 408, 429, 500, 502, 503}
\* Raw Retry-After header: absent, empty, not a number, or decimal digits.
RetryHeaders == {<<"absent">>, <<"empty">>, <<"garbage">>}
                    \cup {<<"digits", n>> : n \in 0..MaxRetryHint}

\* ---------------------------------------------------------------- types.ts
FALLBACK_HTTP_STATUSES == {402, 403, 429, 500, 503}
NON_FALLBACK_HTTP_STATUSES == {400, 401}
DEFAULT_RETRY_AFTER == 60

\* Variant: a status that is on neither list falls back by default.
shouldTriggerFallback_DefaultTrue(status) ==
    IF status \in FALLBACK_HTTP_STATUSES THEN TRUE
    ELSE IF status \in NON_FALLBACK_HTTP_STATUSES THEN FALSE
    ELSE TRUE

\* Variant: only the listed statuses fall back, the 5xx range is forgotten.
shouldTriggerFallback_ListOnly(status) ==
    status \in FALLBACK_HTTP_STATUSES

shouldTriggerFallback(status) ==
    IF status \in FALLBACK_HTTP_STATUSES THEN TRUE
    ELSE IF status \in NON_FALLBACK_HTTP_STATUSES THEN FALSE
    ELSE IF status >= 500 /\ status < 600 THEN TRUE
    ELSE FALSE

shouldFallbackForErrorCode(code) ==
    CASE code \in {"RATE_LIMIT", "TIMEOUT", "SERVICE_UNAVAILABLE",
                   "SERVER_ERROR", "PAYMENT_REQUIRED"} -> TRUE
      [] code \in {"UNAUTHORIZED", "VALIDATION_ERROR"} -> FALSE
      [] OTHER -> FALSE

\* Variant: the case for 503 is missing, it falls into the 5xx default.
httpStatusToErrorCode_No503(status) ==
    CASE status \in {402, 403} -> "PAYMENT_REQUIRED"
      [] status = 429 -> "RATE_LIMIT"
      [] status = 408 -> "TIMEOUT"
      [] status = 500 -> "SERVER_ERROR"
      [] status = 401 -> "UNAUTHORIZED"
      [] status = 400 -> "VALIDATION_ERROR"
      [] OTHER -> IF status >= 500 /\ status < 600 THEN "SERVER_ERROR" ELSE "UNKNOWN"

httpStatusToErrorCode(status) ==
    CASE status \in {402, 403} -> "PAYMENT_REQUIRED"
      [] status = 429 -> "RATE_LIMIT"
      [] status = 408 -> "TIMEOUT"
      [] status = 503 -> "SERVICE_UNAVAILABLE"
      [] status = 500 -> "SERVER_ERROR"
      [] status = 401 -> "UNAUTHORIZED"
      [] status = 400 -> "VALIDATION_ERROR"
      [] OTHER -> IF status >= 500 /\ status < 600 THEN "SERVER_ERROR" ELSE "UNKNOWN"

\* `message || fallback` on an optional string: undefined and "" are falsy.
OrElse(message, fallback) ==
    IF message = None \/ message = Some("") THEN fallback ELSE message[1]

hfDefaultMessages(code) ==
    CASE code = "RATE_LIMIT" -> "Too many requests. Please try again later."
      [] code = "TIMEOUT" -> "Request timed out. Please try again."
      [] code = "SERVICE_UNAVAILABLE" -> "Service is currently unavailable. Please try again later."
      [] code = "SERVER_ERROR" -> "A server error occurred. Please try again."
      [] code = "UNAUTHORIZED" -> "Authentication error occurred. Please refresh the page."
      [] code = "VALIDATION_ERROR" -> "Invalid request. Please check your input."
      [] code = "PAYMENT_REQUIRED" -> "Service quota exhausted. Switching to backup provider."
      [] OTHER -> "An unexpected error occurred."

\* Variant: the hint is passed through, no default for RATE_LIMIT.
createProviderError_NoDefault(status, message, retryAfter) ==
    LET code == httpStatusToErrorCode(status) IN
    [code |-> code,
     message |-> OrElse(message, hfDefaultMessages(code)),
     retryAfter |-> retryAfter,
     shouldFallback |-> shouldTriggerFallback(status)]

createProviderError(status, message, retryAfter) ==
    LET code == httpStatusToErrorCode(status) IN
    [code |-> code,
     message |-> OrElse(message, hfDefaultMessages(code)),
     retryAfter |-> IF code = "RATE_LIMIT"
                    THEN (IF retryAfter = None THEN Some(DEFAULT_RETRY_AFTER) ELSE retryAfter)
                    ELSE retryAfter,
     shouldFallback |-> shouldTriggerFallback(status)]

createTimeoutError ==
    [code |-> "TIMEOUT",
     message |-> "Request timed out. Please try again.",
     retryAfter |-> None,
     shouldFallback |-> TRUE]

\* ---------------------------------------------------------------- cloudflare-provider.ts
cfDefaultMessages(code) ==
    CASE code = "RATE_LIMIT" -> "Too many requests. Please try again later."
      [] code = "TIMEOUT" -> "Request timed out. Please try again."
      [] code = "SERVICE_UNAVAILABLE" -> "Service is currently unavailable. Please try again later."
      [] code = "SERVER_ERROR" -> "A server error occurred. Please try again."
      [] code = "UNAUTHORIZED" -> "Authentication error occurred."
      [] code = "VALIDATION_ERROR" -> "Invalid request. Please check your input."
      [] code = "PAYMENT_REQUIRED" -> "Service quota exhausted."
      [] OTHER -> "An unexpected error occurred."

classifyCloudflareError(status, message, retryAfter) ==
    LET code == httpStatusToErrorCode(status) IN
    [code |-> code,
     message |-> OrElse(message, cfDefaultMessages(code)),
     retryAfter |-> IF code = "RATE_LIMIT" THEN retryAfter ELSE None,
     shouldFallback |-> FALSE]

\* parseRetryAfter: a missing or empty header is falsy, parseInt of a
\* non-numeric header is NaN; both give undefined.
parseRetryAfter(header) ==
    IF header[1] = "digits" THEN Some(header[2]) ELSE None

\* ---------------------------------------------------------------- backend behaviour
\* What a rejected fetch throws: an Error (with a name and a message) or a
\* value that is not an Error.
AbortError == [isError |-> TRUE, name |-> "AbortError", message |-> "This operation was aborted"]
FetchErrors == {[isError |-> TRUE, name |-> "TypeError", message |-> "fetch failed"],
                [isError |-> TRUE, name |-> "Error", message |-> ""],
                [isError |-> FALSE, name |-> "", message |-> ""]}

\* Bodies of a HuggingFace error response, as response.text() delivers them.
HfErrorBodies ==
    {[kind |-> "unreadable", text |-> "", error |-> None, message |-> None],
     [kind |-> "text", text |-> "", error |-> None, message |-> None],
     [kind |-> "text", text |-> "Bad gateway", error |-> None, message |-> None],
     [kind |-> "jsonnull", text |-> "null", error |-> None, message |-> None],
     [kind |-> "json", text |-> "{json}", error |-> Some("Model overloaded"), message |-> None],
     [kind |-> "json", text |-> "{json}", error |-> None, message |-> Some("Quota exceeded")],
     [kind |-> "json", text |-> "{json}", error |-> None, message |-> None]}

\* Image bytes of a HuggingFace success response; "unreadable" when
\* blob()/arrayBuffer() rejects.
Blobs == {"img1", "img2"}
HfBlobOutcomes == {"unreadable"} \cup Blobs

\* Bodies of a Cloudflare response, as response.json() delivers them.
CfBodies ==
    {[kind |-> "unparsable", success |-> FALSE, image |-> None, errmsg |-> None],
     [kind |-> "null", success |-> FALSE, image |-> None, errmsg |-> None],
     [kind |-> "object", success |-> TRUE, image |-> Some("QUJD"), errmsg |-> None],
     [kind |-> "object", success |-> TRUE, image |-> Some(""), errmsg |-> None],
     [kind |-> "object", success |-> TRUE, image |-> None, errmsg |-> None],
     [kind |-> "object", success |-> FALSE, image |-> Some("QUJD"), errmsg |-> None],
     [kind |-> "object", success |-> FALSE, image |-> None, errmsg |-> Some("Model busy")],
     [kind |-> "object", success |-> FALSE, image |-> None, errmsg |-> Some("")]}

\* Buffer.from(arrayBuffer).toString('base64')
toBase64(bytes) ==
    CASE bytes = "img1" -> "aW1nMQ=="
      [] bytes = "img2" -> "aW1nMg=="

\* `data:image/png;base64,${payload}`
DataUrl(payload) == <<"data:image/png;base64,", payload>>

\* ---------------------------------------------------------------- results
Success(image) == [success |-> TRUE, image |-> Some(image), error |-> None]
Failure(error) == [success |-> FALSE, image |-> None, error |-> Some(error)]

\* The value an adapter step ends with: a returned ProviderResult or an
\* exception that escapes generate.
Return(r) == [kind |-> "return", value |-> Some(r)]
Throw == [kind |-> "throw", value |-> None]

\* ---------------------------------------------------------------- env.ts
getHuggingFaceApiKey(e) == IF e.HUGGINGFACE_API_KEY THEN "key" ELSE "throws"
getCloudflareAccountId(e) == IF e.CLOUDFLARE_ACCOUNT_ID THEN "account" ELSE "throws"
getCloudflareApiToken(e) == IF e.CLOUDFLARE_API_TOKEN THEN "token" ELSE "throws"

\* ---------------------------------------------------------------- huggingface-provider.ts
HF == "huggingface"
HF_DEFAULT_TIMEOUT_MS == 30000

hfTimeout(options) ==
    IF options.timeout = None THEN HF_DEFAULT_TIMEOUT_MS ELSE options.timeout[1]

\* Variant: a missing key is treated like any other primary SERVER_ERROR.
hfConfigError_Recoverable ==
    Return(Failure([code |-> "SERVER_ERROR",
                    message |-> "Server configuration error.",
                    retryAfter |-> None,
                    shouldFallback |-> TRUE]))

\* try { apiKey = getHuggingFaceApiKey() } catch { return ... }
hfConfigError ==
    Return(Failure([code |-> "SERVER_ERROR",
                    message |-> "Server configuration error.",
                    retryAfter |-> None,
                    shouldFallback |-> FALSE]))

\* catch (error) around fetchWithTimeout
\* Variant: only a timeout is worth a fallback, a network error is final.
hfOnFetchError_NetworkFatal(error) ==
    IF error.isError /\ error.name = "AbortError"
    THEN Return(Failure(createTimeoutError))
    ELSE Return(Failure([code |-> "SERVER_ERROR",
                         message |-> IF error.isError THEN error.message
                                     ELSE "Network error occurred.",
                         retryAfter |-> None,
                         shouldFallback |-> FALSE]))

hfOnFetchError(error) ==
    IF error.isError /\ error.name = "AbortError"
    THEN Return(Failure(createTimeoutError))
    ELSE Return(Failure([code |-> "SERVER_ERROR",
                         message |-> IF error.isError THEN error.message
                                     ELSE "Network error occurred.",
                         retryAfter |-> None,
                         shouldFallback |-> TRUE]))

hfGetErrorMessage(body) ==
    IF body.kind = "unreadable" THEN None
    ELSE IF body.text = "" THEN None
    ELSE IF body.kind \in {"text", "jsonnull"} THEN Some(body.text)
    ELSE Some(OrElse(body.error, OrElse(body.message, body.text)))

\* if (!response.ok) { ... createProviderError(...) }
hfOnErrorResponse(pending, body) ==
    Return(Failure(createProviderError(pending.status,
                                       hfGetErrorMessage(body),
                                       pending.retryAfter)))

\* Variant: an unreadable image body is not worth a fallback.
hfOnBlob_NotRecoverable(outcome) ==
    IF outcome = "unreadable"
    THEN Return(Failure([code |-> "SERVER_ERROR",
                         message |-> "Failed to process image response.",
                         retryAfter |-> None,
                         shouldFallback |-> FALSE]))
    ELSE Return(Success(DataUrl(toBase64(outcome))))

\* Variant: the body conversion is not wrapped in try/catch.
hfOnBlob_NoCatch(outcome) ==
    IF outcome = "unreadable" THEN Throw
    ELSE Return(Success(DataUrl(toBase64(outcome))))

\* try { blob -> base64 -> data URL } catch { return SERVER_ERROR }
hfOnBlob(outcome) ==
    IF outcome = "unreadable"
    THEN Return(Failure([code |-> "SERVER_ERROR",
                         message |-> "Failed to process image response.",
                         retryAfter |-> None,
                         shouldFallback |-> TRUE]))
    ELSE Return(Success(DataUrl(toBase64(outcome))))

\* ---------------------------------------------------------------- cloudflare-provider.ts
CF == "cloudflare"
CF_DEFAULT_TIMEOUT_MS == 60000

cfTimeout(options) ==
    IF options.timeout = None THEN CF_DEFAULT_TIMEOUT_MS ELSE options.timeout[1]

cfConfigError ==
    Return(Failure([code |-> "SERVER_ERROR",
                    message |-> "Server configuration error.",
                    retryAfter |-> None,
                    shouldFallback |-> FALSE]))

\* Variant: the catch block copied from the primary adapter, flag included.
cfOnFetchError_Recoverable(error) ==
    IF error.isError /\ error.name = "AbortError"
    THEN Return(Failure([code |-> "TIMEOUT",
                         message |-> "Request timed out. Please try again.",
                         retryAfter |-> None,
                         shouldFallback |-> TRUE]))
    ELSE Return(Failure([code |-> "SERVER_ERROR",
                         message |-> IF error.isError THEN error.message
                                     ELSE "Network error occurred.",
                         retryAfter |-> None,
                         shouldFallback |-> TRUE]))

cfOnFetchError(error) ==
    IF error.isError /\ error.name = "AbortError"
    THEN Return(Failure([code |-> "TIMEOUT",
                         message |-> "Request timed out. Please try again.",
                         retryAfter |-> None,
                         shouldFallback |-> FALSE]))
    ELSE Return(Failure([code |-> "SERVER_ERROR",
                         message |-> IF error.isError THEN error.message
                                     ELSE "Network error occurred.",
                         retryAfter |-> None,
                         shouldFallback |-> FALSE]))

\* data.errors?.[0]?.message, undefined when json() rejects or data is null
cfGetErrorMessage(body) ==
    IF body.kind \in {"unparsable", "null"} THEN None ELSE body.errmsg

cfOnErrorResponse(pending, body) ==
    Return(Failure(classifyCloudflareError(pending.status,
                                           cfGetErrorMessage(body),
                                           pending.retryAfter)))

\* Variant: response.success alone decides, the image is not looked at.
transformCloudflareResponse_TrustSuccess(body) ==
    IF body.success
    THEN [success |-> TRUE,
          image |-> IF body.image = None \/ body.image = Some("") THEN None
                    ELSE Some(DataUrl(body.image[1])),
          error |-> None]
    ELSE Failure([code |-> "SERVER_ERROR",
                  message |-> OrElse(body.errmsg, "Failed to generate image."),
                  retryAfter |-> None,
                  shouldFallback |-> FALSE])

transformCloudflareResponse(body) ==
    IF body.success /\ body.image # None /\ body.image # Some("")
    THEN Success(DataUrl(body.image[1]))
    ELSE Failure([code |-> "SERVER_ERROR",
                  message |-> OrElse(body.errmsg, "Failed to generate image."),
                  retryAfter |-> None,
                  shouldFallback |-> FALSE])

\* try { data = await response.json(); return transform(data) } catch { ... }
cfOnBody(body) ==
    IF body.kind \in {"unparsable", "null"}
    THEN Return(Failure([code |-> "SERVER_ERROR",
                         message |-> "Failed to parse response.",
                         retryAfter |-> None,
                         shouldFallback |-> FALSE]))
    ELSE Return(transformCloudflareResponse(body))

\* ---------------------------------------------------------------- provider-manager
\* createProviderManager: HuggingFace is the primary, Cloudflare the fallback.
primaryProvider == HF
fallbackProvider == CF

\* Variant: the success branch reports a fallback attempt.
PrimarySuccessResult_FallbackFlag(primaryResult) ==
    [success |-> TRUE,
     image |-> primaryResult.image,
     provider |-> Some(primaryProvider),
     error |-> None,
     fallbackAttempted |-> TRUE]

\* if (primaryResult.success) return {...}
PrimarySuccessResult(primaryResult) ==
    [success |-> TRUE,
     image |-> primaryResult.image,
     provider |-> Some(primaryProvider),
     error |-> None,
     fallbackAttempted |-> FALSE]

\* Variant: the recoverability check never lets the fallback run.
ShouldAttemptFallback_Never(primaryError) == FALSE

\* Variant: every primary failure falls back, whatever its flag.
ShouldAttemptFallback_Always(primaryError) == primaryError # None

\* primaryError?.shouldFallback
ShouldAttemptFallback(primaryError) ==
    primaryError # None /\ primaryError[1].shouldFallback

\* if (!primaryError?.shouldFallback) return {...}
PrimaryFailureResult(primaryError) ==
    [success |-> FALSE,
     image |-> None,
     provider |-> Some(primaryProvider),
     error |-> primaryError,
     fallbackAttempted |-> FALSE]

\* Variant: the fallback is called with the timeout reset to its default.
FallbackArgs_DefaultTimeout(prompt, options) ==
    [prompt |-> prompt, options |-> [options EXCEPT !.timeout = None]]

\* this.fallbackProvider.generate(prompt, options)
FallbackArgs(prompt, options) == [prompt |-> prompt, options |-> options]

\* Variant: the fallback's success is attributed to the primary provider.
FallbackSuccessResult_PrimaryName(fallbackResult) ==
    [success |-> TRUE,
     image |-> fallbackResult.image,
     provider |-> Some(primaryProvider),
     error |-> None,
     fallbackAttempted |-> TRUE]

\* if (fallbackResult.success) return {...}
FallbackSuccessResult(fallbackResult) ==
    [success |-> TRUE,
     image |-> fallbackResult.image,
     provider |-> Some(fallbackProvider),
     error |-> None,
     fallbackAttempted |-> TRUE]

Min(a, b) == IF a <= b THEN a ELSE b

\* Variant: the primary's retry time wins whenever it is present.
calculateMinRetryTime_PrimaryFirst(primaryError, fallbackError) ==
    LET primaryRetry == primaryError.retryAfter
        fallbackRetry == IF fallbackError = None THEN None ELSE fallbackError[1].retryAfter
    IN  IF primaryRetry # None THEN primaryRetry
        ELSE IF fallbackRetry # None THEN fallbackRetry
        ELSE None

calculateMinRetryTime(primaryError, fallbackError) ==
    LET primaryRetry == primaryError.retryAfter
        fallbackRetry == IF fallbackError = None THEN None ELSE fallbackError[1].retryAfter
    IN  IF primaryRetry # None /\ fallbackRetry # None
        THEN Some(Min(primaryRetry[1], fallbackRetry[1]))
        ELSE IF primaryRetry # None THEN primaryRetry
        ELSE IF fallbackRetry # None THEN fallbackRetry
        ELSE None

createDualProviderError(primaryError, fallbackError) ==
    [code |-> "DUAL_PROVIDER_FAILURE",
     message |-> "Both image generation services are currently unavailable.",
     primaryError |-> primaryError.message,
     fallbackError |-> OrElse(IF fallbackError = None THEN None
                              ELSE Some(fallbackError[1].message),
                              "Unknown fallback error"),
     retryAfter |-> calculateMinRetryTime(primaryError, fallbackError),
     shouldFallback |-> FALSE]

\* Variant: the dual failure names the fallback as its provider.
DualFailureResult_WithProvider(primaryError, fallbackError) ==
    [success |-> FALSE,
     image |-> None,
     provider |-> Some(fallbackProvider),
     error |-> Some(createDualProviderError(primaryError, fallbackError)),
     fallbackAttempted |-> TRUE]

\* return {success: false, error: dualError, fallbackAttempted: true}
DualFailureResult(primaryError, fallbackError) ==
    [success |-> FALSE,
     image |-> None,
     provider |-> None,
     error |-> Some(createDualProviderError(primaryError, fallbackError)),
     fallbackAttempted |-> TRUE]

\* ---------------------------------------------------------------- state
VARIABLES
    env,            \* process.env: which credentials are configured
    mpc,            \* where ProviderManager.generate is
    args,           \* the (prompt, options) of the current generate call
    trace,          \* manager states entered by the current call, in order
    calls,          \* provider.generate invocations of the current call, in order
    inflight,       \* providers whose network request is outstanding
    fetches,        \* number of fetch calls each adapter issued in the current call
    hf,             \* the HuggingFace adapter call
    cf,             \* the Cloudflare adapter call
    primaryResult,  \* ProviderManager.generate's local primaryResult
    fallbackResult, \* ProviderManager.generate's local fallbackResult
    result,         \* the GenerationResult the call resolved with
    thrown,         \* TRUE when the call rejected instead
    cls,            \* a direct call of the two classifiers: inputs and results
    par,            \* generate calls running side by side, each with its own manager
    limiter,        \* the client rate limiter, its storage and its clock
    ug,             \* the useGenerator hook: state, refs and its request in flight
    route           \* POST /api/generate handlers and the server rate limiter

vars == <<env, mpc, args, trace, calls, inflight, fetches, hf, cf,
          primaryResult, fallbackResult, result, thrown, cls,
          par, limiter, ug, route>>

\* `at` is the point of generate at which the call ended ("none" while it
\* has not): "idle" before the first await, else the await it was at.
AdapterIdle == [pc |-> "idle", at |-> "none", timer |-> "none", timeoutMs |-> None,
                response |-> None, out |-> None]

\* No classifier call is being looked at.
ClsIdle == [pc |-> "idle", status |-> 0, message |-> None, retryAfter |-> None,
            primary |-> None, secondary |-> None]

\* No concurrent generate calls, no client limiter, no hook and no route
\* handler are being looked at.
CallIdle == [mpc |-> "idle", args |-> None, hf |-> AdapterIdle, cf |-> AdapterIdle,
             ctl |-> [q \in {HF, CF} |-> 0], primaryResult |-> None,
             result |-> None, thrown |-> FALSE]
ParCalls == {1, 2}
ParIdle == [pc |-> "idle", call |-> [c \in ParCalls |-> CallIdle], nextId |-> 0]
LimiterIdle == [pc |-> "idle", storage |-> "none", stored |-> None, now |-> 0,
                ticks |-> 0, permit |-> FALSE, log |-> <<>>, recorded |-> 0]
\* const initialState: GeneratorState
initialState == [prompt |-> <<>>, style |-> "default", isGenerating |-> FALSE,
                 generatedImage |-> None, error |-> None, progress |-> 0]
UgIdle == [pc |-> "idle", state |-> initialState, lastGenerationRef |-> None,
           rateLimiter |-> [storage |-> "available", stored |-> None, now |-> 0],
           pending |-> <<>>, lastSuccess |-> None]
HandlerIdle == [pc |-> "idle", ip |-> "none", response |-> None,
                recorded |-> 0, generated |-> 0]
RouteHandlers == {1, 2}
RouteIps == {"10.0.0.1", "unknown"}
RouteIdle == [pc |-> "idle", now |-> 0, days |-> 0, store |-> [ip \in RouteIps |-> None],
              total |-> 0, totalReset |-> 0, started |-> 0,
              h |-> [x \in RouteHandlers |-> HandlerIdle],
              records |-> 0, successes |-> 0]

\* An adapter call that ended: returned a ProviderResult or threw.
AdapterEnded(a, outcome) ==
    [a EXCEPT !.pc = IF outcome.kind = "return" THEN "returned" ELSE "threw",
              !.at = a.pc,
              !.response = None,
              !.out = outcome.value]

Init ==
    /\ env \in [HUGGINGFACE_API_KEY : BOOLEAN,
                CLOUDFLARE_ACCOUNT_ID : BOOLEAN,
                CLOUDFLARE_API_TOKEN : BOOLEAN]
    /\ mpc = "idle"
    /\ args = None
    /\ trace = <<>>
    /\ calls = <<>>
    /\ inflight = {}
    /\ fetches = [p \in {HF, CF} |-> 0]
    /\ hf = AdapterIdle
    /\ cf = AdapterIdle
    /\ primaryResult = None
    /\ fallbackResult = None
    /\ result = None
    /\ thrown = FALSE
    /\ cls = ClsIdle
    /\ par = ParIdle
    /\ limiter = LimiterIdle
    /\ ug = UgIdle
    /\ route = RouteIdle

\* ---------------------------------------------------------------- adapters
\* HuggingFaceProvider.generate up to its first await: credentials, then
\* fetchWithTimeout arms the timer and issues the request.
\* Variant: the request is issued before the key is looked at.
hfStart_NoKeyCheck(e, options) ==
    [AdapterIdle EXCEPT !.pc = "fetch", !.timer = "armed",
                        !.timeoutMs = Some(hfTimeout(options))]

hfStart(e, options) ==
    IF getHuggingFaceApiKey(e) = "throws"
    THEN AdapterEnded(AdapterIdle, hfConfigError)
    ELSE [AdapterIdle EXCEPT !.pc = "fetch", !.timer = "armed",
                             !.timeoutMs = Some(hfTimeout(options))]

\* CloudflareProvider.generate up to its first await.
cfStart(e, options) ==
    IF getCloudflareAccountId(e) = "throws" THEN AdapterEnded(AdapterIdle, cfConfigError)
    ELSE IF getCloudflareApiToken(e) = "throws" THEN AdapterEnded(AdapterIdle, cfConfigError)
    ELSE [AdapterIdle EXCEPT !.pc = "fetch", !.timer = "armed",
                             !.timeoutMs = Some(cfTimeout(options))]

\* response.ok
ok(status) == status >= 200 /\ status <= 299

\* What an adapter holds while it awaits the response body: the status and,
\* for an error status, the retryAfter it has parsed from the header.
Pending(status, header) ==
    [status |-> status,
     retryAfter |-> IF ok(status) THEN None ELSE parseRetryAfter(header)]

\* fetch resolves with a response; the finally clause clears the timer and
\* generate runs on to the await of the body.
HFFetchResponds(status, header) ==
    /\ hf.pc = "fetch"
    /\ hf' = [hf EXCEPT !.pc = IF ok(status) THEN "blob" ELSE "text",
                        !.timer = "cleared",
                        !.response = Some(Pending(status, header))]
    /\ UNCHANGED <<par, limiter, ug, route, cls, env, mpc, args, trace, calls, inflight, fetches, cf,
                   primaryResult, fallbackResult, result, thrown>>

\* fetch rejects for a reason other than the timer.
HFFetchRejects(error) ==
    /\ hf.pc = "fetch"
    /\ hf' = AdapterEnded([hf EXCEPT !.timer = "cleared"], hfOnFetchError(error))
    /\ inflight' = inflight \ {HF}
    /\ UNCHANGED <<par, limiter, ug, route, cls, env, mpc, args, trace, calls, fetches, cf,
                   primaryResult, fallbackResult, result, thrown>>

\* Variant: the timer ends the wait without aborting the request (the
\* signal is not passed to fetch).
HFTimerFires_NoAbort ==
    /\ hf.pc = "fetch"
    /\ hf.timer = "armed"
    /\ hf' = AdapterEnded([hf EXCEPT !.timer = "fired"], hfOnFetchError(AbortError))
    /\ UNCHANGED <<par, limiter, ug, route, cls, env, mpc, args, trace, calls, inflight, fetches, cf,
                   primaryResult, fallbackResult, result, thrown>>

\* The timer fires while the fetch is pending: controller.abort() aborts the
\* request and the fetch rejects with an AbortError.
HFTimerFires ==
    /\ hf.pc = "fetch"
    /\ hf.timer = "armed"
    /\ hf' = AdapterEnded([hf EXCEPT !.timer = "fired"], hfOnFetchError(AbortError))
    /\ inflight' = inflight \ {HF}
    /\ UNCHANGED <<par, limiter, ug, route, cls, env, mpc, args, trace, calls, fetches, cf,
                   primaryResult, fallbackResult, result, thrown>>

\* !response.ok: the error body has been read.
HFReadErrorBody(body) ==
    /\ hf.pc = "text"
    /\ hf' = AdapterEnded(hf, hfOnErrorResponse(hf.response[1], body))
    /\ inflight' = inflight \ {HF}
    /\ UNCHANGED <<par, limiter, ug, route, cls, env, mpc, args, trace, calls, fetches, cf,
                   primaryResult, fallbackResult, result, thrown>>

\* response.ok: the image body has been read, or reading it failed.
HFReadBlob(outcome) ==
    /\ hf.pc = "blob"
    /\ hf' = AdapterEnded(hf, hfOnBlob(outcome))
    /\ inflight' = inflight \ {HF}
    /\ UNCHANGED <<par, limiter, ug, route, cls, env, mpc, args, trace, calls, fetches, cf,
                   primaryResult, fallbackResult, result, thrown>>

CFFetchResponds(status, header) ==
    /\ cf.pc = "fetch"
    /\ cf' = [cf EXCEPT !.pc = IF ok(status) THEN "json" ELSE "errjson",
                        !.timer = "cleared",
                        !.response = Some(Pending(status, header))]
    /\ UNCHANGED <<par, limiter, ug, route, cls, env, mpc, args, trace, calls, inflight, fetches, hf,
                   primaryResult, fallbackResult, result, thrown>>

CFFetchRejects(error) ==
    /\ cf.pc = "fetch"
    /\ cf' = AdapterEnded([cf EXCEPT !.timer = "cleared"], cfOnFetchError(error))
    /\ inflight' = inflight \ {CF}
    /\ UNCHANGED <<par, limiter, ug, route, cls, env, mpc, args, trace, calls, fetches, hf,
                   primaryResult, fallbackResult, result, thrown>>

CFTimerFires ==
    /\ cf.pc = "fetch"
    /\ cf.timer = "armed"
    /\ cf' = AdapterEnded([cf EXCEPT !.timer = "fired"], cfOnFetchError(AbortError))
    /\ inflight' = inflight \ {CF}
    /\ UNCHANGED <<par, limiter, ug, route, cls, env, mpc, args, trace, calls, fetches, hf,
                   primaryResult, fallbackResult, result, thrown>>

CFReadErrorBody(body) ==
    /\ cf.pc = "errjson"
    /\ cf' = AdapterEnded(cf, cfOnErrorResponse(cf.response[1], body))
    /\ inflight' = inflight \ {CF}
    /\ UNCHANGED <<par, limiter, ug, route, cls, env, mpc, args, trace, calls, fetches, hf,
                   primaryResult, fallbackResult, result, thrown>>

CFReadBody(body) ==
    /\ cf.pc = "json"
    /\ cf' = AdapterEnded(cf, cfOnBody(body))
    /\ inflight' = inflight \ {CF}
    /\ UNCHANGED <<par, limiter, ug, route, cls, env, mpc, args, trace, calls, fetches, hf,
                   primaryResult, fallbackResult, result, thrown>>

\* ---------------------------------------------------------------- ProviderManager.generate
Started(a) == IF a.pc = "fetch" THEN 1 ELSE 0

\* generate(prompt, options) is called on the manager the route created for
\* this request: the primary provider is invoked and runs up to its first
\* await.
Generate(prompt, options) ==
    /\ mpc = "idle"
    /\ mpc' = "ATTEMPT_PRIMARY"
    /\ args' = Some([prompt |-> prompt, options |-> options])
    /\ trace' = <<"ATTEMPT_PRIMARY">>
    /\ calls' = <<[provider |-> primaryProvider, prompt |-> prompt, options |-> options]>>
    /\ hf' = hfStart(env, options)
    /\ cf' = AdapterIdle
    /\ inflight' = IF Started(hf') = 1 THEN {HF} ELSE {}
    /\ fetches' = [p \in {HF, CF} |-> IF p = HF THEN Started(hf') ELSE 0]
    /\ primaryResult' = None
    /\ fallbackResult' = None
    /\ result' = None
    /\ thrown' = FALSE
    /\ UNCHANGED <<par, limiter, ug, route, cls, env>>

\* The awaited primary call has settled: return, or invoke the fallback,
\* which runs up to its first await.
MgrAfterPrimary ==
    /\ mpc = "ATTEMPT_PRIMARY"
    /\ hf.pc \in {"returned", "threw"}
    /\ IF hf.pc = "threw"
       THEN /\ thrown' = TRUE
            /\ mpc' = "DONE"
            /\ trace' = Append(trace, "DONE")
            /\ UNCHANGED <<calls, cf, inflight, fetches, primaryResult, result>>
       ELSE LET pr == hf.out[1] IN
            /\ primaryResult' = Some(pr)
            /\ thrown' = FALSE
            /\ IF pr.success
               THEN /\ result' = Some(PrimarySuccessResult(pr))
                    /\ mpc' = "DONE"
                    /\ trace' = Append(trace, "DONE")
                    /\ UNCHANGED <<calls, cf, inflight, fetches>>
               ELSE IF ~ShouldAttemptFallback(pr.error)
               THEN /\ result' = Some(PrimaryFailureResult(pr.error))
                    /\ mpc' = "DONE"
                    /\ trace' = Append(trace, "DONE")
                    /\ UNCHANGED <<calls, cf, inflight, fetches>>
               ELSE LET fa == FallbackArgs(args[1].prompt, args[1].options) IN
                    /\ mpc' = "ATTEMPT_SECONDARY"
                    /\ trace' = Append(trace, "ATTEMPT_SECONDARY")
                    /\ calls' = Append(calls, [provider |-> fallbackProvider,
                                               prompt |-> fa.prompt,
                                               options |-> fa.options])
                    /\ cf' = cfStart(env, fa.options)
                    /\ inflight' = IF Started(cf') = 1 THEN inflight \cup {CF} ELSE inflight
                    /\ fetches' = [fetches EXCEPT ![CF] = @ + Started(cf')]
                    /\ UNCHANGED result
    /\ UNCHANGED <<par, limiter, ug, route, cls, env, args, hf, fallbackResult>>

\* The awaited fallback call has settled.
MgrAfterFallback ==
    /\ mpc = "ATTEMPT_SECONDARY"
    /\ cf.pc \in {"returned", "threw"}
    /\ mpc' = "DONE"
    /\ trace' = Append(trace, "DONE")
    /\ IF cf.pc = "threw"
       THEN /\ thrown' = TRUE
            /\ UNCHANGED <<fallbackResult, result>>
       ELSE LET fr == cf.out[1] IN
            /\ fallbackResult' = Some(fr)
            /\ thrown' = FALSE
            /\ result' = IF fr.success
                         THEN Some(FallbackSuccessResult(fr))
                         ELSE Some(DualFailureResult(primaryResult[1].error[1], fr.error))
    /\ UNCHANGED <<par, limiter, ug, route, cls, env, args, calls, inflight, fetches, hf, cf, primaryResult>>

Next ==
    \/ \E prompt \in Prompts, options \in OptionsSet : Generate(prompt, options)
    \/ \E status \in Statuses, header \in RetryHeaders : HFFetchResponds(status, header)
    \/ \E error \in FetchErrors : HFFetchRejects(error)
    \/ HFTimerFires
    \/ \E body \in HfErrorBodies : HFReadErrorBody(body)
    \/ \E outcome \in HfBlobOutcomes : HFReadBlob(outcome)
    \/ MgrAfterPrimary
    \/ \E status \in Statuses, header \in RetryHeaders : CFFetchResponds(status, header)
    \/ \E error \in FetchErrors : CFFetchRejects(error)
    \/ CFTimerFires
    \/ \E body \in CfBodies : CFReadErrorBody(body)
    \/ \E body \in CfBodies : CFReadBody(body)
    \/ MgrAfterFallback

Spec == Init /\ [][Next]_vars

\* ---------------------------------------------------------------- the classifiers on their own
\* createProviderError and classifyCloudflareError are exported and pure:
\* they are called here on every status of MinStatus..MaxStatus that is not
\* a success status, with and without a message and a retry hint.
ClassifierStatuses == {s \in MinStatus..MaxStatus : ~ok(s)}
ClassifierMessages == {None, Some(""), Some("Backend says no")}
ClassifierRetryHints == {None} \cup {Some(n) : n \in 0..MaxRetryHint}

InitClassifier ==
    /\ env = [HUGGINGFACE_API_KEY |-> TRUE,
              CLOUDFLARE_ACCOUNT_ID |-> TRUE,
              CLOUDFLARE_API_TOKEN |-> TRUE]
    /\ mpc = "idle"
    /\ args = None
    /\ trace = <<>>
    /\ calls = <<>>
    /\ inflight = {}
    /\ fetches = [p \in {HF, CF} |-> 0]
    /\ hf = AdapterIdle
    /\ cf = AdapterIdle
    /\ primaryResult = None
    /\ fallbackResult = None
    /\ result = None
    /\ thrown = FALSE
    /\ par = ParIdle
    /\ limiter = LimiterIdle
    /\ ug = UgIdle
    /\ route = RouteIdle
    /\ \E status \in ClassifierStatuses, message \in ClassifierMessages,
          retryAfter \in ClassifierRetryHints :
          cls = [ClsIdle EXCEPT !.pc = "input", !.status = status,
                                !.message = message, !.retryAfter = retryAfter]

\* createProviderError(status, message, retryAfter)
ClassifyPrimary ==
    /\ cls.pc = "input"
    /\ cls' = [cls EXCEPT !.pc = "primary",
                          !.primary = Some(createProviderError(cls.status, cls.message,
                                                               cls.retryAfter))]
    /\ UNCHANGED <<par, limiter, ug, route, env, mpc, args, trace, calls, inflight,
                   fetches, hf, cf, primaryResult, fallbackResult, result, thrown>>

\* classifyCloudflareError(status, message, retryAfter)
ClassifySecondary ==
    /\ cls.pc = "primary"
    /\ cls' = [cls EXCEPT !.pc = "done",
                          !.secondary = Some(classifyCloudflareError(cls.status, cls.message,
                                                                     cls.retryAfter))]
    /\ UNCHANGED <<par, limiter, ug, route, env, mpc, args, trace, calls, inflight,
                   fetches, hf, cf, primaryResult, fallbackResult, result, thrown>>

NextClassifier ==
    \/ ClassifyPrimary
    \/ ClassifySecondary

SpecClassifier == InitClassifier /\ [][NextClassifier]_vars

\* ---------------------------------------------------------------- properties
CallsTo(name) == {i \in 1..Len(calls) : calls[i].provider = name}

\* The primary adapter call returned / returned this kind of result.
PrimaryReturned == hf.pc = "returned"
PrimarySucceeded == PrimaryReturned /\ hf.out[1].success
PrimaryFailed == PrimaryReturned /\ ~hf.out[1].success
PrimaryFailedRecoverably ==
    PrimaryFailed /\ hf.out[1].error # None /\ hf.out[1].error[1].shouldFallback
FallbackReturned == cf.pc = "returned"
FallbackFailed == FallbackReturned /\ ~cf.out[1].success
Finished == mpc = "DONE" /\ result # None
DualFailure == Finished /\ PrimaryFailedRecoverably /\ FallbackFailed

\* C1: in every generate call the primary provider is invoked exactly once
\* and first; the fallback is invoked at most once, only after the primary
\* call returned, and (once the call is done) if and only if the primary
\* returned success=false with error.shouldFallback=true; the manager goes
\* through ATTEMPT_PRIMARY -> ATTEMPT_SECONDARY -> DONE without revisiting a
\* state.
PrimaryOnceFallbackIffRecoverable ==
    /\ mpc # "idle" =>
         /\ Cardinality(CallsTo(primaryProvider)) = 1
         /\ calls[1].provider = primaryProvider
         /\ mpc = trace[Len(trace)]
    /\ Cardinality(CallsTo(fallbackProvider)) <= 1
    /\ CallsTo(fallbackProvider) # {} => PrimaryFailedRecoverably
    /\ mpc = "DONE" => (CallsTo(fallbackProvider) # {} <=> PrimaryFailedRecoverably)
    /\ trace \in {<<>>,
                  <<"ATTEMPT_PRIMARY">>,
                  <<"ATTEMPT_PRIMARY", "DONE">>,
                  <<"ATTEMPT_PRIMARY", "ATTEMPT_SECONDARY">>,
                  <<"ATTEMPT_PRIMARY", "ATTEMPT_SECONDARY", "DONE">>}

\* A call that finished after invoking the fallback.
FallbackPathFinished ==
    mpc = "DONE" /\ Len(calls) = 2 /\ trace = <<"ATTEMPT_PRIMARY", "ATTEMPT_SECONDARY", "DONE">>

\* C2: when the primary returns success the fallback is invoked zero times
\* and generate returns success=true with the primary's image, the primary's
\* name and fallbackAttempted=false.
PrimarySuccessNoFallback ==
    PrimarySucceeded =>
        /\ CallsTo(fallbackProvider) = {}
        /\ mpc = "DONE" =>
             /\ result # None
             /\ result[1].success
             /\ result[1].image = hf.out[1].image
             /\ result[1].image # None
             /\ result[1].provider = Some(primaryProvider)
             /\ result[1].fallbackAttempted = FALSE

PrimarySuccessFinished == Finished /\ PrimarySucceeded

\* C3: when the primary fails with shouldFallback=false, generate returns at
\* once with success=false, that same error, the primary's name and
\* fallbackAttempted=false, and the fallback is never invoked.
NonRecoverableNoFallback ==
    (PrimaryFailed /\ ~PrimaryFailedRecoverably) =>
        /\ CallsTo(fallbackProvider) = {}
        /\ cf.pc = "idle"
        /\ mpc = "DONE" =>
             /\ trace = <<"ATTEMPT_PRIMARY", "DONE">>
             /\ result # None
             /\ result[1].success = FALSE
             /\ result[1].error = hf.out[1].error
             /\ result[1].provider = Some(primaryProvider)
             /\ result[1].fallbackAttempted = FALSE

\* Primary HTTP 401: UNAUTHORIZED is returned and no fallback call was made.
UnauthorizedFinished ==
    /\ Finished
    /\ PrimaryFailed
    /\ result[1].error[1].code = "UNAUTHORIZED"
    /\ Len(calls) = 1

\* C4: the prompt and options passed to the fallback provider equal the ones
\* passed to the primary provider in the same call, and the call's own
\* prompt and options are not changed in between.
FallbackGetsSameArgs ==
    /\ \A i \in CallsTo(fallbackProvider) :
          /\ calls[i].prompt = calls[1].prompt
          /\ calls[i].options = calls[1].options
    /\ mpc # "idle" =>
          args = Some([prompt |-> calls[1].prompt, options |-> calls[1].options])

\* The fallback was invoked with a non-default timeout and negative prompt.
FallbackInvokedWithOptions ==
    /\ CallsTo(fallbackProvider) # {}
    /\ calls[1].options.timeout # None
    /\ calls[1].options.negativePrompt # None

\* C5: primary fails recoverably and the fallback succeeds: generate returns
\* success=true with the fallback's image, the fallback's name and
\* fallbackAttempted=true.
FallbackSuccessResultShape ==
    (mpc = "DONE" /\ PrimaryFailedRecoverably /\ FallbackReturned /\ cf.out[1].success) =>
        /\ result # None
        /\ result[1].success
        /\ result[1].image = cf.out[1].image
        /\ result[1].image # None
        /\ result[1].provider = Some(fallbackProvider)
        /\ result[1].fallbackAttempted = TRUE

FallbackSuccessFinished ==
    Finished /\ PrimaryFailedRecoverably /\ FallbackReturned /\ cf.out[1].success

\* C6: primary fails recoverably and the fallback fails too: generate returns
\* success=false, fallbackAttempted=true, no provider, and an error with code
\* DUAL_PROVIDER_FAILURE and shouldFallback=false.
DualFailureResultShape ==
    (mpc = "DONE" /\ PrimaryFailedRecoverably /\ FallbackFailed) =>
        /\ result # None
        /\ result[1].success = FALSE
        /\ result[1].image = None
        /\ result[1].fallbackAttempted = TRUE
        /\ result[1].provider = None
        /\ result[1].error # None
        /\ result[1].error[1].code = "DUAL_PROVIDER_FAILURE"
        /\ result[1].error[1].shouldFallback = FALSE

DualFailureFinished == DualFailure /\ cf.out[1].error[1].code = "RATE_LIMIT"

\* C7: in every dual-failure result primaryError is the message of the
\* primary adapter's error and fallbackError is the message of the fallback
\* adapter's error.
DualErrorCopiesMessages ==
    DualFailure =>
        /\ result[1].error[1].primaryError = hf.out[1].error[1].message
        /\ result[1].error[1].fallbackError = cf.out[1].error[1].message

\* C8: in every dual-failure result retryAfter is min(A, B) when the primary
\* error carries retryAfter A and the fallback error carries B, the one that
\* is present when only one is, and absent when neither is.
DualRetryAfterIsMin ==
    DualFailure =>
        LET A == hf.out[1].error[1].retryAfter
            B == cf.out[1].error[1].retryAfter
            r == result[1].error[1].retryAfter
        IN  /\ (A # None /\ B # None) =>
                 /\ r # None
                 /\ r[1] \in {A[1], B[1]}
                 /\ r[1] <= A[1]
                 /\ r[1] <= B[1]
            /\ (A # None /\ B = None) => r = A
            /\ (A = None /\ B # None) => r = B
            /\ (A = None /\ B = None) => r = None

\* Primary HTTP 500 without a hint, fallback HTTP 429 with a hint: the hint
\* of the fallback is the result's retryAfter.
DualRetryOnlyFallbackHint ==
    /\ DualFailure
    /\ hf.out[1].error[1].code = "SERVER_ERROR"
    /\ hf.out[1].error[1].retryAfter = None
    /\ cf.out[1].error[1].code = "RATE_LIMIT"
    /\ cf.out[1].error[1].retryAfter = Some(MaxRetryHint)
    /\ result[1].error[1].retryAfter = Some(MaxRetryHint)

\* C9: the primary adapter call has completed before the fallback adapter
\* call starts; a primary and a fallback network call are never in flight
\* together.
PrimaryCompletesBeforeFallback ==
    /\ ~({HF, CF} \subseteq inflight)
    /\ cf.pc # "idle" => (hf.pc = "returned" /\ HF \notin inflight)
    /\ CallsTo(fallbackProvider) # {} => (hf.pc = "returned" /\ HF \notin inflight)

\* The fallback's request is in flight after the primary timed out.
FallbackInFlight ==
    /\ CF \in inflight
    /\ hf.timer = "fired"

\* C10: generate and both adapters never throw: every adapter call that ends
\* returns a ProviderResult and every finished generate call returns a
\* GenerationResult.
NeverThrows ==
    /\ ~thrown
    /\ hf.pc # "threw"
    /\ cf.pc # "threw"
    /\ hf.pc = "returned" => hf.out # None
    /\ cf.pc = "returned" => cf.out # None
    /\ mpc = "DONE" => result # None

\* Both adapters went through a catch block (the primary's fetch threw a
\* value that is not an Error, the fallback's body did not parse) and
\* generate still returned a result.
ExceptionPathsFinished ==
    /\ DualFailure
    /\ result[1].error[1].primaryError = "Network error occurred."
    /\ result[1].error[1].fallbackError = "Failed to parse response."

\* Exactly one branch of a ProviderResult / GenerationResult is populated.
ExactlyOneBranch(r) ==
    /\ r.success => (r.image # None /\ r.error = None)
    /\ ~r.success => (r.error # None /\ r.image = None)

\* C11: every ProviderResult an adapter returns and every GenerationResult
\* generate returns has exactly one branch populated: success=true with an
\* image and no error, or success=false with an error and no image.
OutcomeExclusive ==
    /\ hf.out # None => ExactlyOneBranch(hf.out[1])
    /\ cf.out # None => ExactlyOneBranch(cf.out[1])
    /\ result # None => ExactlyOneBranch(result[1])

\* The fallback answered a success status whose body carries no image, and
\* generate returned the dual failure.
MalformedSuccessFinished ==
    /\ DualFailure
    /\ cf.at = "json"
    /\ cf.out[1].error[1].message = "Failed to generate image."

\* C12: the primary classifier marks a status recoverable for every status
\* in {402, 403, 429, 500, 503} and every status in 500-599, and
\* non-recoverable for 400 and 401.
RecoverabilityPartition ==
    cls.primary # None =>
        LET s == cls.status
            e == cls.primary[1]
        IN  /\ (s \in {402, 403, 429, 500, 503} \/ (s >= 500 /\ s <= 599)) =>
                 (e.shouldFallback = TRUE /\ shouldTriggerFallback(s) = TRUE)
            /\ s \in {400, 401} =>
                 (e.shouldFallback = FALSE /\ shouldTriggerFallback(s) = FALSE)

\* A 5xx status that is not listed by name was classified as recoverable.
UnlistedServerErrorClassified ==
    /\ cls.primary # None
    /\ cls.status = 599
    /\ cls.primary[1].shouldFallback

\* C13: every failure the Cloudflare adapter returns has shouldFallback=false,
\* whichever path produced it (credentials, fetch rejected or aborted,
\* classified status, unparsable body, success status without an image).
SecondaryNeverRecoverable ==
    /\ (cf.pc = "returned" /\ ~cf.out[1].success) =>
          /\ cf.out[1].error # None
          /\ cf.out[1].error[1].shouldFallback = FALSE
          /\ cf.at \in {"idle", "fetch", "errjson", "json"}
    /\ cls.secondary # None => cls.secondary[1].shouldFallback = FALSE

\* The fallback's timer aborted its request.
SecondaryTimedOut ==
    /\ FallbackFailed
    /\ cf.at = "fetch"
    /\ cf.timer = "fired"
    /\ cf.out[1].error[1].code = "TIMEOUT"

HintDroppedUnlessRateLimit ==
    /\ (cls.primary # None /\ cls.primary[1].code # "RATE_LIMIT") =>
          cls.primary[1].retryAfter = None
    /\ (cls.secondary # None /\ cls.secondary[1].code # "RATE_LIMIT") =>
          cls.secondary[1].retryAfter = None

\* C17 as stated: missing credentials give SERVER_ERROR with shouldFallback
\* true in the primary adapter and false in the secondary adapter.
MissingCredentialsFollowRole ==
    /\ (hf.pc = "returned" /\ hf.at = "idle") =>
          /\ hf.out[1].error[1].code = "SERVER_ERROR"
          /\ hf.out[1].error[1].shouldFallback = TRUE
    /\ (cf.pc = "returned" /\ cf.at = "idle") =>
          /\ cf.out[1].error[1].code = "SERVER_ERROR"
          /\ cf.out[1].error[1].shouldFallback = FALSE

\* C17 amended: missing credentials give SERVER_ERROR with shouldFallback
\* false in both adapters; neither issues a request, and after a missing
\* primary key the fallback is not invoked.
MissingCredentialsNeverRecoverable ==
    /\ (hf.pc = "returned" /\ hf.at = "idle") =>
          /\ ~env.HUGGINGFACE_API_KEY
          /\ ~hf.out[1].success
          /\ hf.out[1].error[1].code = "SERVER_ERROR"
          /\ hf.out[1].error[1].shouldFallback = FALSE
          /\ CallsTo(fallbackProvider) = {}
    /\ (cf.pc = "returned" /\ cf.at = "idle") =>
          /\ (~env.CLOUDFLARE_ACCOUNT_ID \/ ~env.CLOUDFLARE_API_TOKEN)
          /\ ~cf.out[1].success
          /\ cf.out[1].error[1].code = "SERVER_ERROR"
          /\ cf.out[1].error[1].shouldFallback = FALSE
    /\ (mpc # "idle" /\ ~env.HUGGINGFACE_API_KEY) => (hf.pc = "returned" /\ hf.at = "idle")
    /\ (cf.pc # "idle" /\ (~env.CLOUDFLARE_ACCOUNT_ID \/ ~env.CLOUDFLARE_API_TOKEN)) =>
          (cf.pc = "returned" /\ cf.at = "idle")

\* generate returned the primary's configuration error without a fallback.
MissingPrimaryKeyFinished ==
    /\ Finished
    /\ hf.at = "idle"
    /\ ~env.HUGGINGFACE_API_KEY
    /\ result[1].error[1].message = "Server configuration error."
    /\ Len(calls) = 1

\* C18 as stated: a success status whose image cannot be extracted gives
\* SERVER_ERROR with shouldFallback=false, in the primary and in the
\* secondary adapter.
MalformedSuccessNotRecoverable ==
    /\ (hf.pc = "returned" /\ hf.at = "blob" /\ ~hf.out[1].success) =>
          /\ hf.out[1].error[1].code = "SERVER_ERROR"
          /\ hf.out[1].error[1].shouldFallback = FALSE
    /\ (cf.pc = "returned" /\ cf.at = "json" /\ ~cf.out[1].success) =>
          /\ cf.out[1].error[1].code = "SERVER_ERROR"
          /\ cf.out[1].error[1].shouldFallback = FALSE

\* C18 amended: a success status whose image cannot be extracted gives
\* SERVER_ERROR in both adapters, with shouldFallback=false in the secondary
\* adapter and shouldFallback=true in the primary adapter.
MalformedSuccessFollowsRole ==
    /\ (hf.pc = "returned" /\ hf.at = "blob" /\ ~hf.out[1].success) =>
          /\ hf.out[1].error[1].code = "SERVER_ERROR"
          /\ hf.out[1].error[1].shouldFallback = TRUE
    /\ (cf.pc = "returned" /\ cf.at = "json" /\ ~cf.out[1].success) =>
          /\ cf.out[1].error[1].code = "SERVER_ERROR"
          /\ cf.out[1].error[1].shouldFallback = FALSE

\* The primary's image body was unreadable and the fallback, invoked for it,
\* answered a success status without an image.
BothMalformedSuccess ==
    /\ DualFailure
    /\ hf.at = "blob"
    /\ cf.at = "json"

\* C19: an adapter issues no network request when its credentials cannot be
\* resolved and exactly one otherwise; the count stays at one after a failed
\* request, so no request is retried.
OneNetworkCallPerAdapterCall ==
    /\ fetches[HF] = IF hf.pc # "idle" /\ env.HUGGINGFACE_API_KEY THEN 1 ELSE 0
    /\ fetches[CF] = IF /\ cf.pc # "idle"
                        /\ env.CLOUDFLARE_ACCOUNT_ID
                        /\ env.CLOUDFLARE_API_TOKEN
                     THEN 1 ELSE 0

\* The primary made its one request and failed; the fallback, invoked
\* without credentials, ended without a request.
FallbackWithoutCredentialsFinished ==
    /\ DualFailure
    /\ fetches[HF] = 1
    /\ cf.at = "idle"
    /\ fetches[CF] = 0

\* C20: every transport failure of the primary is recoverable: when the
\* timer fires the request is aborted and the error is TIMEOUT with
\* shouldFallback=true, any other rejection of the request is SERVER_ERROR
\* with shouldFallback=true, and the orchestrator goes on to the secondary.
PrimaryTransportFailureRecoverable ==
    (hf.pc = "returned" /\ hf.at = "fetch") =>
        /\ ~hf.out[1].success
        /\ hf.out[1].error[1].shouldFallback = TRUE
        /\ HF \notin inflight
        /\ hf.timer = "fired" => hf.out[1].error[1].code = "TIMEOUT"
        /\ hf.timer # "fired" => hf.out[1].error[1].code = "SERVER_ERROR"
        /\ mpc \in {"ATTEMPT_SECONDARY", "DONE"} => CallsTo(fallbackProvider) # {}

\* The primary's request rejected without the timer and the fallback's
\* image was returned.
NetworkErrorThenFallbackSuccess ==
    /\ Finished
    /\ hf.at = "fetch"
    /\ hf.timer = "cleared"
    /\ hf.out[1].error[1].code = "SERVER_ERROR"
    /\ result[1].success
    /\ result[1].fallbackAttempted

\* C21 as stated: for status 429 the classifier, primary or secondary,
\* returns RATE_LIMIT with retryAfter equal to the supplied hint, and equal
\* to 60 when no hint is supplied.
RateLimitHintOrSixty ==
    cls.status = 429 =>
        LET expected == IF cls.retryAfter = None THEN Some(60) ELSE cls.retryAfter
        IN  /\ cls.primary # None =>
                 /\ cls.primary[1].code = "RATE_LIMIT"
                 /\ cls.primary[1].retryAfter = expected
            /\ cls.secondary # None =>
                 /\ cls.secondary[1].code = "RATE_LIMIT"
                 /\ cls.secondary[1].retryAfter = expected

\* C21 amended: for status 429 both classifiers return RATE_LIMIT with
\* retryAfter equal to the supplied hint; when no hint is supplied the
\* primary classifier returns retryAfter 60 and the secondary classifier
\* returns no retryAfter.
RateLimitHintDefaultPrimaryOnly ==
    cls.status = 429 =>
        /\ cls.primary # None =>
             /\ cls.primary[1].code = "RATE_LIMIT"
             /\ cls.primary[1].retryAfter =
                   IF cls.retryAfter = None THEN Some(60) ELSE cls.retryAfter
        /\ cls.secondary # None =>
             /\ cls.secondary[1].code = "RATE_LIMIT"
             /\ cls.secondary[1].retryAfter = cls.retryAfter

\* 429 without a hint has been classified by both classifiers.
RateLimitWithoutHintClassified ==
    /\ cls.pc = "done"
    /\ cls.status = 429
    /\ cls.retryAfter = None
    /\ cls.primary[1].retryAfter = Some(60)
    /\ cls.secondary[1].retryAfter = None

\* -------------------------------------------------------- concurrent calls
\* Two requests are served side by side: each has its own ProviderManager
\* (createProviderManager) and its own generate call, whose adapters create
\* their AbortController and timer per call. The backends are shared.
ParPrompt(c) == IF c = 1 THEN "cat" ELSE "dog"
ParOptions == [style |-> "default", negativePrompt |-> None, timeout |-> None]
ParCfBodies == {b \in CfBodies : /\ b.kind = "object"
                                 /\ \/ (b.success /\ b.image = Some("QUJD"))
                                    \/ b.errmsg = Some("Model busy")}

\* Variant: one controller at module level, used by every call.
NewController_Shared(p) == 1

\* new AbortController(): an object no earlier call holds.
NewController(p) == p.nextId + 1

Adp(cr, q) == IF q = HF THEN cr.hf ELSE cr.cf
SetAdp(cr, q, a) == IF q = HF THEN [cr EXCEPT !.hf = a] ELSE [cr EXCEPT !.cf = a]
OnFetchError(q, error) == IF q = HF THEN hfOnFetchError(error) ELSE cfOnFetchError(error)

\* provider.generate up to its first await, with the controller it created.
ParStart(p, cr, q, options) ==
    LET a == IF q = HF THEN hfStart(env, options) ELSE cfStart(env, options) IN
    IF a.pc = "fetch"
    THEN [SetAdp(cr, q, a) EXCEPT !.ctl[q] = NewController(p)]
    ELSE SetAdp(cr, q, a)

\* controller.abort() on controller k, seen from the call record cr: its
\* request with that signal rejects with AbortError. own: the timer that
\* fired is this adapter call's.
AbortIn(cr, q, k, own) ==
    LET a == Adp(cr, q) IN
    IF a.pc = "fetch" /\ cr.ctl[q] = k
    THEN SetAdp(cr, q, AdapterEnded([a EXCEPT !.timer = IF own THEN "fired" ELSE "cleared"],
                                    OnFetchError(q, AbortError)))
    ELSE cr

InitConcurrent ==
    /\ env = [HUGGINGFACE_API_KEY |-> TRUE,
              CLOUDFLARE_ACCOUNT_ID |-> TRUE,
              CLOUDFLARE_API_TOKEN |-> TRUE]
    /\ mpc = "idle"
    /\ args = None
    /\ trace = <<>>
    /\ calls = <<>>
    /\ inflight = {}
    /\ fetches = [p \in {HF, CF} |-> 0]
    /\ hf = AdapterIdle
    /\ cf = AdapterIdle
    /\ primaryResult = None
    /\ fallbackResult = None
    /\ result = None
    /\ thrown = FALSE
    /\ cls = ClsIdle
    /\ limiter = LimiterIdle
    /\ ug = UgIdle
    /\ route = RouteIdle
    /\ par = [ParIdle EXCEPT !.pc = "run"]

ParFrame ==
    UNCHANGED <<env, mpc, args, trace, calls, inflight, fetches, hf, cf,
                primaryResult, fallbackResult, result, thrown, cls, limiter, ug, route>>

\* createProviderManager().generate(prompt, options) of request c.
ParGenerate(c) ==
    /\ par.pc = "run"
    /\ par.call[c].mpc = "idle"
    /\ LET cr == ParStart(par, [par.call[c] EXCEPT
                                   !.mpc = "ATTEMPT_PRIMARY",
                                   !.args = Some([prompt |-> ParPrompt(c),
                                                  options |-> ParOptions])],
                          HF, ParOptions)
       IN par' = [par EXCEPT !.call[c] = cr,
                             !.nextId = IF cr.hf.pc = "fetch" THEN @ + 1 ELSE @]
    /\ ParFrame

ParFetchResponds(c, q, status, header) ==
    /\ par.pc = "run"
    /\ Adp(par.call[c], q).pc = "fetch"
    /\ LET a == Adp(par.call[c], q)
           body == IF q = HF THEN (IF ok(status) THEN "blob" ELSE "text")
                             ELSE (IF ok(status) THEN "json" ELSE "errjson")
       IN par' = [par EXCEPT !.call[c] =
                     SetAdp(@, q, [a EXCEPT !.pc = body, !.timer = "cleared",
                                            !.response = Some(Pending(status, header))])]
    /\ ParFrame

ParFetchRejects(c, q, error) ==
    /\ par.pc = "run"
    /\ Adp(par.call[c], q).pc = "fetch"
    /\ LET a == Adp(par.call[c], q) IN
       par' = [par EXCEPT !.call[c] =
                  SetAdp(@, q, AdapterEnded([a EXCEPT !.timer = "cleared"],
                                            OnFetchError(q, error)))]
    /\ ParFrame

\* setTimeout(() => controller.abort(), timeout) of adapter q in call c.
ParTimerFires(c, q) ==
    /\ par.pc = "run"
    /\ Adp(par.call[c], q).pc = "fetch"
    /\ Adp(par.call[c], q).timer = "armed"
    /\ LET k == par.call[c].ctl[q] IN
       par' = [par EXCEPT !.call = [d \in ParCalls |->
                  AbortIn(AbortIn(par.call[d], HF, k, d = c /\ q = HF),
                          CF, k, d = c /\ q = CF)]]
    /\ ParFrame

ParHFReadErrorBody(c, body) ==
    /\ par.pc = "run"
    /\ par.call[c].hf.pc = "text"
    /\ par' = [par EXCEPT !.call[c].hf =
                  AdapterEnded(@, hfOnErrorResponse(@.response[1], body))]
    /\ ParFrame

ParHFReadBlob(c, outcome) ==
    /\ par.pc = "run"
    /\ par.call[c].hf.pc = "blob"
    /\ par' = [par EXCEPT !.call[c].hf = AdapterEnded(@, hfOnBlob(outcome))]
    /\ ParFrame

ParCFReadErrorBody(c, body) ==
    /\ par.pc = "run"
    /\ par.call[c].cf.pc = "errjson"
    /\ par' = [par EXCEPT !.call[c].cf =
                  AdapterEnded(@, cfOnErrorResponse(@.response[1], body))]
    /\ ParFrame

ParCFReadBody(c, body) ==
    /\ par.pc = "run"
    /\ par.call[c].cf.pc = "json"
    /\ par' = [par EXCEPT !.call[c].cf = AdapterEnded(@, cfOnBody(body))]
    /\ ParFrame

\* generate of request c continues after `await primaryProvider.generate`.
ParAfterPrimary(c) ==
    /\ par.pc = "run"
    /\ par.call[c].mpc = "ATTEMPT_PRIMARY"
    /\ par.call[c].hf.pc \in {"returned", "threw"}
    /\ LET cr == par.call[c]
           pr == cr.hf.out[1]
       IN  IF cr.hf.pc = "threw"
           THEN par' = [par EXCEPT !.call[c].mpc = "DONE", !.call[c].thrown = TRUE]
           ELSE IF pr.success
           THEN par' = [par EXCEPT !.call[c].mpc = "DONE",
                                   !.call[c].primaryResult = Some(pr),
                                   !.call[c].result = Some(PrimarySuccessResult(pr))]
           ELSE IF ~ShouldAttemptFallback(pr.error)
           THEN par' = [par EXCEPT !.call[c].mpc = "DONE",
                                   !.call[c].primaryResult = Some(pr),
                                   !.call[c].result = Some(PrimaryFailureResult(pr.error))]
           ELSE LET fa == FallbackArgs(cr.args[1].prompt, cr.args[1].options)
                    nx == ParStart(par, [cr EXCEPT !.mpc = "ATTEMPT_SECONDARY",
                                                   !.primaryResult = Some(pr)],
                                   CF, fa.options)
                IN par' = [par EXCEPT !.call[c] = nx,
                                      !.nextId = IF nx.cf.pc = "fetch" THEN @ + 1 ELSE @]
    /\ ParFrame

\* generate of request c continues after `await fallbackProvider.generate`.
ParAfterFallback(c) ==
    /\ par.pc = "run"
    /\ par.call[c].mpc = "ATTEMPT_SECONDARY"
    /\ par.call[c].cf.pc \in {"returned", "threw"}
    /\ LET cr == par.call[c]
           fr == cr.cf.out[1]
       IN  IF cr.cf.pc = "threw"
           THEN par' = [par EXCEPT !.call[c].mpc = "DONE", !.call[c].thrown = TRUE]
           ELSE par' = [par EXCEPT
                   !.call[c].mpc = "DONE",
                   !.call[c].result =
                       IF fr.success
                       THEN Some(FallbackSuccessResult(fr))
                       ELSE Some(DualFailureResult(cr.primaryResult[1].error[1], fr.error))]
    /\ ParFrame

NextConcurrent ==
    \/ \E c \in ParCalls : ParGenerate(c)
    \/ \E c \in ParCalls, q \in {HF, CF}, status \in {200, 401, 503}, header \in {<<"absent">>} :
          ParFetchResponds(c, q, status, header)
    \/ \E c \in ParCalls, q \in {HF, CF},
          error \in {e \in FetchErrors : e.isError /\ e.name = "TypeError"} :
          ParFetchRejects(c, q, error)
    \/ \E c \in ParCalls, q \in {HF, CF} : ParTimerFires(c, q)
    \/ \E c \in ParCalls,
          body \in {b \in HfErrorBodies : b.kind = "text" /\ b.text = "Bad gateway"} :
          ParHFReadErrorBody(c, body)
    \/ \E c \in ParCalls, outcome \in {"img1"} : ParHFReadBlob(c, outcome)
    \/ \E c \in ParCalls, body \in ParCfBodies : ParCFReadErrorBody(c, body)
    \/ \E c \in ParCalls, body \in ParCfBodies : ParCFReadBody(c, body)
    \/ \E c \in ParCalls : ParAfterPrimary(c)
    \/ \E c \in ParCalls : ParAfterFallback(c)

SpecConcurrent == InitConcurrent /\ [][NextConcurrent]_vars

\* ------------------------------------------------- POST /api/generate route
\* src/lib/server-rate-limiter.ts
MAX_REQUESTS_PER_IP == 5
SERVER_WINDOW_MS == 24 * 60 * 60 * 1000
MAX_TOTAL_REQUESTS == 100

\* Bounds: requests started and days passed in one run.
MaxRequests == 7
MaxDays == 1

\* canMakeRequest(ip), what it writes: the total counter is reset when its
\* window is over, and the entry of ip is deleted when its window is over
\* (unless the total limit already answered).
serverAfterCheck(r, ip) ==
    LET r1 == IF r.now >= r.totalReset
              THEN [r EXCEPT !.total = 0, !.totalReset = r.now + SERVER_WINDOW_MS]
              ELSE r
    IN  IF r1.total >= MAX_TOTAL_REQUESTS THEN r1
        ELSE IF r1.store[ip] # None /\ r1.now >= r1.store[ip][1].resetTime
        THEN [r1 EXCEPT !.store[ip] = None]
        ELSE r1

\* canMakeRequest(ip).allowed
serverCanMakeRequest(r, ip) ==
    LET r2 == serverAfterCheck(r, ip) IN
    IF r2.total >= MAX_TOTAL_REQUESTS THEN FALSE
    ELSE IF r2.store[ip] = None THEN TRUE
    ELSE r2.store[ip][1].count < MAX_REQUESTS_PER_IP

\* recordRequest(ip)
serverRecordRequest(r, ip) ==
    LET e == r.store[ip] IN
    [r EXCEPT !.total = @ + 1,
              !.store[ip] =
                  IF e = None \/ r.now >= e[1].resetTime
                  THEN Some([count |-> 1, resetTime |-> r.now + SERVER_WINDOW_MS])
                  ELSE Some([e[1] EXCEPT !.count = @ + 1])]

\* What `await request.json()` and the validation make of the request body.
RouteBodies == {"invalid json", "not an object", "prompt not a string",
                "invalid prompt", "invalid style", "valid"}

\* What providerManager.generate settles with.
RouteOutcomes ==
    {Return(PrimarySuccessResult(Success(DataUrl(toBase64("img1"))))),
     Return(FallbackSuccessResult(Success(DataUrl("QUJD")))),
     Return(PrimaryFailureResult(Some(createProviderError(401, None, None)))),
     Return(DualFailureResult(createProviderError(503, None, None),
                              Some(classifyCloudflareError(429, None, Some(1))))),
     Throw}

errorCodeToHttpStatus(code) ==
    CASE code = "RATE_LIMIT" -> 429
      [] code = "SERVICE_UNAVAILABLE" -> 503
      [] code = "UNAUTHORIZED" -> 401
      [] code = "VALIDATION_ERROR" -> 400
      [] code = "TIMEOUT" -> 408
      [] code = "DUAL_PROVIDER_FAILURE" -> 503
      [] code = "PAYMENT_REQUIRED" -> 402
      [] OTHER -> 500

Response(success, status, code) == Some([success |-> success, status |-> status, code |-> code])

\* if (result.success && result.image)
ShouldRecord(outcome) ==
    /\ outcome.kind = "return"
    /\ outcome.value[1].success
    /\ outcome.value[1].image # None

\* The server has been up for a while: no entry for the addresses looked
\* at, and other addresses have used none or all but one of the day's total.
InitRoute ==
    /\ env = [HUGGINGFACE_API_KEY |-> TRUE,
              CLOUDFLARE_ACCOUNT_ID |-> TRUE,
              CLOUDFLARE_API_TOKEN |-> TRUE]
    /\ mpc = "idle"
    /\ args = None
    /\ trace = <<>>
    /\ calls = <<>>
    /\ inflight = {}
    /\ fetches = [p \in {HF, CF} |-> 0]
    /\ hf = AdapterIdle
    /\ cf = AdapterIdle
    /\ primaryResult = None
    /\ fallbackResult = None
    /\ result = None
    /\ thrown = FALSE
    /\ cls = ClsIdle
    /\ par = ParIdle
    /\ limiter = LimiterIdle
    /\ ug = UgIdle
    /\ \E used \in {0, MAX_TOTAL_REQUESTS - 1} :
          route = [RouteIdle EXCEPT !.pc = "up", !.total = used,
                                    !.totalReset = SERVER_WINDOW_MS]

RouteFrame ==
    UNCHANGED <<env, mpc, args, trace, calls, inflight, fetches, hf, cf,
                primaryResult, fallbackResult, result, thrown, cls, par, limiter, ug>>

\* Variant: an allowed request is recorded at once, before it is generated.
RoutePost_RecordEarly(x, ip) ==
    /\ route.pc = "up"
    /\ route.h[x].pc = "idle"
    /\ route.started < MaxRequests
    /\ LET r == serverAfterCheck(route, ip) IN
       route' = IF serverCanMakeRequest(route, ip)
                THEN [serverRecordRequest(r, ip) EXCEPT
                         !.started = @ + 1,
                         !.records = @ + 1,
                         !.h[x] = [HandlerIdle EXCEPT !.pc = "parsing", !.ip = ip]]
                ELSE [r EXCEPT
                         !.started = @ + 1,
                         !.h[x] = [HandlerIdle EXCEPT !.pc = "responded", !.ip = ip,
                                      !.response = Response(FALSE, 429, "RATE_LIMIT")]]
    /\ RouteFrame

\* POST up to `await request.json()`: the address, then canMakeRequest(ip).
RoutePost(x, ip) ==
    /\ route.pc = "up"
    /\ route.h[x].pc = "idle"
    /\ route.started < MaxRequests
    /\ LET r == serverAfterCheck(route, ip) IN
       route' = [r EXCEPT
           !.started = @ + 1,
           !.h[x] = IF serverCanMakeRequest(route, ip)
                    THEN [HandlerIdle EXCEPT !.pc = "parsing", !.ip = ip]
                    ELSE [HandlerIdle EXCEPT !.pc = "responded", !.ip = ip,
                                             !.response = Response(FALSE, 429, "RATE_LIMIT")]]
    /\ RouteFrame

\* The body arrived: validation, then createProviderManager().generate(...).
RouteParsed(x, body) ==
    /\ route.pc = "up"
    /\ route.h[x].pc = "parsing"
    /\ route' = [route EXCEPT
           !.h[x] = IF body = "valid"
                    THEN [@ EXCEPT !.pc = "generating", !.generated = @ + 1]
                    ELSE [@ EXCEPT !.pc = "responded",
                                   !.response = Response(FALSE, 400, "VALIDATION_ERROR")]]
    /\ RouteFrame

\* generate settled: record and answer.
RouteGenerated(x, outcome) ==
    /\ route.pc = "up"
    /\ route.h[x].pc = "generating"
    /\ IF ShouldRecord(outcome)
       THEN route' = [serverRecordRequest(route, route.h[x].ip) EXCEPT
                         !.h[x].pc = "responded",
                         !.h[x].recorded = @ + 1,
                         !.h[x].response = Response(TRUE, 200, "none"),
                         !.records = @ + 1,
                         !.successes = @ + 1]
       ELSE IF outcome.kind = "return" /\ outcome.value[1].error # None
       THEN LET code == outcome.value[1].error[1].code IN
            route' = [route EXCEPT
                         !.h[x].pc = "responded",
                         !.h[x].response = Response(FALSE, errorCodeToHttpStatus(code), code)]
       ELSE route' = [route EXCEPT
                         !.h[x].pc = "responded",
                         !.h[x].response = Response(FALSE, 500, "SERVER_ERROR")]
    /\ RouteFrame

\* The response was sent; the handler of the next request may run.
RouteDone(x) ==
    /\ route.pc = "up"
    /\ route.h[x].pc = "responded"
    /\ route' = [route EXCEPT !.h[x] = HandlerIdle]
    /\ RouteFrame

\* A day passes.
RouteAdvance ==
    /\ route.pc = "up"
    /\ route.days < MaxDays
    /\ route' = [route EXCEPT !.now = @ + SERVER_WINDOW_MS, !.days = @ + 1]
    /\ RouteFrame

NextRoute ==
    \/ \E x \in RouteHandlers, ip \in RouteIps : RoutePost(x, ip)
    \/ \E x \in RouteHandlers, body \in RouteBodies : RouteParsed(x, body)
    \/ \E x \in RouteHandlers, outcome \in RouteOutcomes : RouteGenerated(x, outcome)
    \/ \E x \in RouteHandlers : RouteDone(x)
    \/ RouteAdvance

SpecRoute == InitRoute /\ [][NextRoute]_vars

\* ------------------------------------------------------------- termination
\* The only things taken for granted: an armed timer eventually fires, and
\* the manager continues once the call it awaits has settled. The backend may
\* stall at any point, so no fetch or body-read step is fair.
SpecTimed ==
    /\ Init
    /\ [][Next]_vars
    /\ WF_vars(HFTimerFires)
    /\ WF_vars(CFTimerFires)
    /\ WF_vars(MgrAfterPrimary)
    /\ WF_vars(MgrAfterFallback)

\* C29: every adapter call eventually returns provided only that its timer
\* eventually fires, whether the backend stalls before the response or while
\* the body is read, and so every ProviderManager.generate call eventually
\* returns.
EveryCallReturns ==
    /\ (hf.pc \notin {"idle", "returned", "threw"}) ~> (hf.pc \in {"returned", "threw"})
    /\ (cf.pc \notin {"idle", "returned", "threw"}) ~> (cf.pc \in {"returned", "threw"})
    /\ (mpc = "ATTEMPT_PRIMARY") ~> (mpc = "DONE")

\* ------------------------------------------------------ client rate limiter
\* src/lib/rate-limiter.ts
\* Variant: the limit of the header comment of rate-limiter.ts.
MAX_REQUESTS_Ten == 10
MAX_REQUESTS == 5
WINDOW_MS == 24 * 60 * 60 * 1000

\* Bounds: clock advances and attempts looked at in one run.
MaxTicks == 3
MaxAttempts == 7

FreshState(l) == [count |-> 0, windowStart |-> l.now]

\* Variant: the window never expires.
getState_NoExpiry(l) ==
    IF l.storage = "unavailable" THEN FreshState(l)
    ELSE IF l.stored = None THEN FreshState(l)
    ELSE l.stored[1]

\* getState(): the stored state, or a fresh one when there is no storage,
\* nothing is stored or the stored window has expired.
getState(l) ==
    IF l.storage = "unavailable" THEN FreshState(l)
    ELSE IF l.stored = None THEN FreshState(l)
    ELSE IF l.now - l.stored[1].windowStart >= WINDOW_MS THEN FreshState(l)
    ELSE l.stored[1]

\* setState(state): a no-op without storage.
setState(l, state) ==
    IF l.storage = "unavailable" THEN l ELSE [l EXCEPT !.stored = Some(state)]

\* Variant: the request that reaches the limit does not block the next one.
canMakeRequest_Inclusive(l) == getState(l).count <= MAX_REQUESTS

canMakeRequest(l) == getState(l).count < MAX_REQUESTS

recordRequest(l) ==
    LET state == getState(l) IN
    IF l.now - state.windowStart >= WINDOW_MS
    THEN setState(l, [count |-> 1, windowStart |-> l.now])
    ELSE setState(l, [count |-> state.count + 1, windowStart |-> state.windowStart])

getRemainingRequests(l) ==
    LET r == MAX_REQUESTS - getState(l).count IN IF r > 0 THEN r ELSE 0

\* The stored window is over at time t.
WindowOver(l, t) ==
    l.stored # None /\ t - l.stored[1].windowStart >= WINDOW_MS

\* createRateLimiter(storage, getCurrentTime) on an empty storage at time 0.
\* getStorage() gives a Storage that works, or none: null where there is no
\* window, or one whose getItem and setItem throw (both are caught).
InitLimiter ==
    /\ env = [HUGGINGFACE_API_KEY |-> TRUE,
              CLOUDFLARE_ACCOUNT_ID |-> TRUE,
              CLOUDFLARE_API_TOKEN |-> TRUE]
    /\ mpc = "idle"
    /\ args = None
    /\ trace = <<>>
    /\ calls = <<>>
    /\ inflight = {}
    /\ fetches = [p \in {HF, CF} |-> 0]
    /\ hf = AdapterIdle
    /\ cf = AdapterIdle
    /\ primaryResult = None
    /\ fallbackResult = None
    /\ result = None
    /\ thrown = FALSE
    /\ cls = ClsIdle
    /\ par = ParIdle
    /\ ug = UgIdle
    /\ route = RouteIdle
    /\ \E kind \in {"available", "unavailable"} :
          limiter = [LimiterIdle EXCEPT !.pc = "ready", !.storage = kind]

LimiterFrame ==
    UNCHANGED <<env, mpc, args, trace, calls, inflight, fetches, hf, cf,
                primaryResult, fallbackResult, result, thrown, cls, par, ug, route>>

\* An attempt starts: canMakeRequest() is called and its answer noted.
LimiterCanMakeRequest ==
    /\ limiter.pc = "ready"
    /\ ~limiter.permit
    /\ Len(limiter.log) < MaxAttempts
    /\ limiter' = [limiter EXCEPT !.permit = canMakeRequest(limiter),
                                  !.log = Append(@, canMakeRequest(limiter))]
    /\ LimiterFrame

\* The attempt was allowed: recordRequest() is called, in the same turn.
LimiterRecordRequest ==
    /\ limiter.pc = "ready"
    /\ limiter.permit
    /\ limiter' = [recordRequest(limiter) EXCEPT !.permit = FALSE,
                                                 !.recorded = @ + 1]
    /\ LimiterFrame

\* Time passes between attempts; the attempts and recorded requests of a
\* window that is over are forgotten.
LimiterAdvance(step) ==
    /\ limiter.pc = "ready"
    /\ ~limiter.permit
    /\ limiter.ticks < MaxTicks
    /\ LET t == limiter.now + step IN
       limiter' = [limiter EXCEPT !.now = t,
                                  !.ticks = @ + 1,
                                  !.log = IF WindowOver(limiter, t) THEN <<>> ELSE @,
                                  !.recorded = IF WindowOver(limiter, t) THEN 0 ELSE @]
    /\ LimiterFrame

\* The clock moves by a millisecond or by a millisecond less than a window,
\* so that both sides of windowStart + WINDOW_MS are reached.
NextLimiter ==
    \/ LimiterCanMakeRequest
    \/ LimiterRecordRequest
    \/ \E step \in {1, WINDOW_MS - 1} : LimiterAdvance(step)

SpecLimiter == InitLimiter /\ [][NextLimiter]_vars

\* ------------------------------------------------------------ useGenerator
\* A prompt is a sequence of characters; "0" stands for the null byte.
\* The prompts typed: blank, plain, and one with a null byte and an `&`.
UgPrompts == {<<" ">>, <<"a">>, <<"0", "&">>}

\* Bound: requests in flight at once.
MaxInFlight == 2

\* sanitizeInput on one character: null bytes are removed and the HTML
\* special characters are escaped, `&` first.
EscapeChar(ch) ==
    CASE ch = "0" -> <<>>
      [] ch = "&" -> <<"&", "a", "m", "p", ";">>
      [] ch = "<" -> <<"&", "l", "t", ";">>
      [] ch = ">" -> <<"&", "g", "t", ";">>
      [] ch = "\"" -> <<"&", "q", "u", "o", "t", ";">>
      [] ch = "'" -> <<"&", "#", "x", "2", "7", ";">>
      [] OTHER -> <<ch>>

\* sanitizeInput(input). No prompt of UgPrompts holds `javascript:`,
\* an `on...=` handler or `data:text/html`, before or after escaping.
RECURSIVE sanitizeInput(_)
sanitizeInput(input) ==
    IF input = <<>> THEN <<>>
    ELSE EscapeChar(Head(input)) \o sanitizeInput(Tail(input))

\* isValidPrompt(prompt): something is left after trim().
isValidPrompt(prompt) == \E i \in 1..Len(prompt) : prompt[i] # " "

RemoveAt(seq, i) == SubSeq(seq, 1, i - 1) \o SubSeq(seq, i + 1, Len(seq))

InitUg ==
    /\ env = [HUGGINGFACE_API_KEY |-> TRUE,
              CLOUDFLARE_ACCOUNT_ID |-> TRUE,
              CLOUDFLARE_API_TOKEN |-> TRUE]
    /\ mpc = "idle"
    /\ args = None
    /\ trace = <<>>
    /\ calls = <<>>
    /\ inflight = {}
    /\ fetches = [p \in {HF, CF} |-> 0]
    /\ hf = AdapterIdle
    /\ cf = AdapterIdle
    /\ primaryResult = None
    /\ fallbackResult = None
    /\ result = None
    /\ thrown = FALSE
    /\ cls = ClsIdle
    /\ par = ParIdle
    /\ limiter = LimiterIdle
    /\ route = RouteIdle
    /\ ug = [UgIdle EXCEPT !.pc = "mounted"]

UgFrame ==
    UNCHANGED <<env, mpc, args, trace, calls, inflight, fetches, hf, cf,
                primaryResult, fallbackResult, result, thrown, cls, par, limiter, route>>

UgSetPrompt(prompt) ==
    /\ ug.pc = "mounted"
    /\ ug' = [ug EXCEPT !.state.prompt = prompt, !.state.error = None]
    /\ UgFrame

UgSetStyle(style) ==
    /\ ug.pc = "mounted"
    /\ ug' = [ug EXCEPT !.state.style = style]
    /\ UgFrame

\* generateImage(prompt, style) up to `await fetch`; by: the caller.
generateImage(u, prompt, style, by) ==
    LET sanitized == sanitizeInput(prompt) IN
    IF ~isValidPrompt(sanitized)
    THEN [u EXCEPT !.state.error = Some("VALIDATION_ERROR"), !.state.isGenerating = FALSE]
    ELSE IF ~canMakeRequest(u.rateLimiter)
    THEN [u EXCEPT !.state.error = Some("RATE_LIMIT"), !.state.isGenerating = FALSE]
    ELSE [u EXCEPT !.state.isGenerating = TRUE,
                   !.state.error = None,
                   !.state.progress = 30,
                   !.rateLimiter = recordRequest(@),
                   !.pending = Append(@, [at |-> "fetch", by |-> by,
                                          prompt |-> sanitized, style |-> style])]

\* The request a generate() of the current state sends.
RequestOfState(u) == [prompt |-> sanitizeInput(u.state.prompt), style |-> u.state.style]

UgGenerate ==
    /\ ug.pc = "mounted"
    /\ Len(ug.pending) < MaxInFlight
    /\ ug' = generateImage(ug, ug.state.prompt, ug.state.style, "generate")
    /\ UgFrame

UgRegenerate ==
    /\ ug.pc = "mounted"
    /\ Len(ug.pending) < MaxInFlight
    /\ LET params == IF ug.lastGenerationRef # None
                     THEN ug.lastGenerationRef[1]
                     ELSE [prompt |-> ug.state.prompt, style |-> ug.state.style]
       IN ug' = generateImage(ug, params.prompt, params.style, "regenerate")
    /\ UgFrame

\* `await fetch('/api/generate', ...)` settles.
UgFetchSettles(i, outcome) ==
    /\ ug.pc = "mounted"
    /\ i \in 1..Len(ug.pending)
    /\ ug.pending[i].at = "fetch"
    /\ ug' = IF outcome = "response"
             THEN [ug EXCEPT !.state.progress = 70, !.pending[i].at = "json"]
             ELSE [ug EXCEPT !.state.error = Some("SERVER_ERROR"),
                             !.state.isGenerating = FALSE,
                             !.state.progress = 0,
                             !.pending = RemoveAt(@, i)]
    /\ UgFrame

\* `await response.json()` settles.
UgJsonSettles(i, outcome) ==
    /\ ug.pc = "mounted"
    /\ i \in 1..Len(ug.pending)
    /\ ug.pending[i].at = "json"
    /\ LET req == [prompt |-> ug.pending[i].prompt, style |-> ug.pending[i].style] IN
       ug' = IF outcome = "success"
             THEN [ug EXCEPT !.lastGenerationRef = Some(req),
                             !.state.generatedImage = Some("image"),
                             !.state.isGenerating = FALSE,
                             !.state.progress = 100,
                             !.state.error = None,
                             !.pending = RemoveAt(@, i),
                             !.lastSuccess = Some(req)]
             ELSE [ug EXCEPT !.state.error =
                                 IF outcome = "error with body" THEN Some("UNAUTHORIZED")
                                 ELSE Some("SERVER_ERROR"),
                             !.state.isGenerating = FALSE,
                             !.state.progress = 0,
                             !.pending = RemoveAt(@, i)]
    /\ UgFrame

UgReset ==
    /\ ug.pc = "mounted"
    /\ ug' = [ug EXCEPT !.state = initialState, !.lastGenerationRef = None,
                        !.lastSuccess = None]
    /\ UgFrame

NextUg ==
    \/ \E prompt \in UgPrompts : UgSetPrompt(prompt)
    \/ \E style \in Styles : UgSetStyle(style)
    \/ UgGenerate
    \/ UgRegenerate
    \/ \E i \in 1..MaxInFlight, outcome \in {"response", "throws"} : UgFetchSettles(i, outcome)
    \/ \E i \in 1..MaxInFlight,
          outcome \in {"success", "error with body", "error without body", "throws"} :
          UgJsonSettles(i, outcome)
    \/ UgReset

SpecUg == InitUg /\ [][NextUg]_vars


\* C23 as stated: within one window exactly the first MAX_REQUESTS attempts
\* are allowed and every later one is denied, the stored count never exceeds
\* MAX_REQUESTS and getRemainingRequests is MAX_REQUESTS minus the number of
\* recorded requests.
QuotaEnforced ==
    limiter.pc = "ready" =>
        /\ \A i \in 1..Len(limiter.log) : limiter.log[i] = (i <= MAX_REQUESTS)
        /\ limiter.stored # None => limiter.stored[1].count <= MAX_REQUESTS
        /\ getRemainingRequests(limiter) = MAX_REQUESTS - limiter.recorded

\* C23 amended: the same, for a limiter that has a storage.
QuotaEnforcedWithStorage ==
    (limiter.pc = "ready" /\ limiter.storage = "available") =>
        /\ \A i \in 1..Len(limiter.log) : limiter.log[i] = (i <= MAX_REQUESTS)
        /\ limiter.stored # None => limiter.stored[1].count <= MAX_REQUESTS
        /\ getRemainingRequests(limiter) = MAX_REQUESTS - limiter.recorded

\* MAX_REQUESTS attempts were allowed and recorded and the next was denied.
AttemptDeniedAfterQuota ==
    /\ limiter.storage = "available"
    /\ limiter.recorded = MAX_REQUESTS
    /\ Len(limiter.log) = MAX_REQUESTS + 1
    /\ ~limiter.log[MAX_REQUESTS + 1]
    /\ getRemainingRequests(limiter) = 0

\* C24: a limiter that has reached its limit stays blocked at every time
\* before windowStart + WINDOW_MS; once WINDOW_MS has elapsed since
\* windowStart it allows requests again with the full quota: the count reads
\* 0 in a window that starts now, and the requests recorded from then on are
\* counted from 1.
BlockedUntilWindowEnds ==
    (limiter.pc = "ready" /\ limiter.stored # None) =>
        LET st == limiter.stored[1] IN
        /\ (st.count >= MAX_REQUESTS /\ limiter.now < st.windowStart + WINDOW_MS) =>
              /\ ~canMakeRequest(limiter)
              /\ getRemainingRequests(limiter) = 0
        /\ (st.count >= MAX_REQUESTS /\ limiter.now >= st.windowStart + WINDOW_MS) =>
              /\ canMakeRequest(limiter)
              /\ getRemainingRequests(limiter) = MAX_REQUESTS
              /\ getState(limiter) = [count |-> 0, windowStart |-> limiter.now]
        /\ limiter.now < st.windowStart + WINDOW_MS => st.count = limiter.recorded

\* The limit was reached, the window elapsed to the millisecond and the
\* next attempt has just been allowed.
AllowedAgainAtWindowEnd ==
    /\ limiter.pc = "ready"
    /\ limiter.stored # None
    /\ limiter.stored[1].count = MAX_REQUESTS
    /\ limiter.now = limiter.stored[1].windowStart + WINDOW_MS
    /\ limiter.log = <<TRUE>>
    /\ limiter.permit

StatusAndCodeClassificationAgree ==
    (cls.primary # None /\ cls.status >= 400 /\ cls.status <= 599) =>
        /\ shouldTriggerFallback(cls.status) =
              shouldFallbackForErrorCode(httpStatusToErrorCode(cls.status))
        /\ cls.primary[1].shouldFallback = shouldTriggerFallback(cls.status)
        /\ cls.primary[1].shouldFallback = shouldFallbackForErrorCode(cls.primary[1].code)

\* What generate returns for the outcomes of its own adapter calls.
ResultOf(cr) ==
    LET pr == cr.hf.out[1] IN
    IF pr.success THEN PrimarySuccessResult(pr)
    ELSE IF ~ShouldAttemptFallback(pr.error) THEN PrimaryFailureResult(pr.error)
    ELSE IF cr.cf.out[1].success THEN FallbackSuccessResult(cr.cf.out[1])
    ELSE DualFailureResult(pr.error[1], cr.cf.out[1].error)

\* The requests in flight, as <<call, adapter>>.
ParInFlight == {x \in ParCalls \X {HF, CF} : Adp(par.call[x[1]], x[2]).pc = "fetch"}

\* C22: concurrent generate calls do not interfere: requests in flight have
\* distinct abort controllers, an adapter call ends in TIMEOUT only when its
\* own timer fired, the result of a call is the one its own adapter calls
\* determine, and no step of one call changes anything of another call.
ConcurrentCallsIndependent ==
    /\ [](\A x, y \in ParInFlight :
             x # y => par.call[x[1]].ctl[x[2]] # par.call[y[1]].ctl[y[2]])
    /\ [](\A c \in ParCalls, q \in {HF, CF} :
             LET a == Adp(par.call[c], q) IN
             (a.pc = "returned" /\ ~a.out[1].success
                /\ a.out[1].error[1].code = "TIMEOUT") => a.timer = "fired")
    /\ [](\A c \in ParCalls :
             (par.call[c].mpc = "DONE" /\ ~par.call[c].thrown) =>
                 par.call[c].result = Some(ResultOf(par.call[c])))
    /\ [][\A c \in ParCalls :
             par'.call[c] # par.call[c] =>
                 \A d \in ParCalls \ {c} : par'.call[d] = par.call[d]]_vars

\* The primary request of one call has just timed out while the other
\* call's primary request, issued earlier, is still in flight with its
\* timer armed.
TimeoutBesideRequestInFlight ==
    /\ par.call[2].mpc = "ATTEMPT_PRIMARY"
    /\ par.call[2].hf.timer = "fired"
    /\ par.call[1].hf.pc = "fetch"
    /\ par.call[1].hf.timer = "armed"
    /\ par.call[1].ctl[HF] < par.call[2].ctl[HF]

\* rateLimitStore.get(ip)?.count ?? 0
CountOf(r, ip) == IF r.store[ip] = None THEN 0 ELSE r.store[ip][1].count

\* C28: under every interleaving of POST handlers the successful
\* generations served to one address within one window never exceed
\* MAX_REQUESTS_PER_IP: rateLimitStore[ip].count <= 5 in every state.
PerIpCountWithinLimit ==
    \A ip \in RouteIps :
        route.store[ip] # None => route.store[ip][1].count <= MAX_REQUESTS_PER_IP

\* C30: recordRequest(ip) is called exactly once for every response with
\* success=true and never for any other response; a request denied by the
\* rate limiter or rejected by validation invokes no generation and, like a
\* request whose generation failed, consumes no quota.
RecordOnlyOnSuccess ==
    /\ [][route'.successes = route.successes =>
             /\ route'.total <= route.total
             /\ \A ip \in RouteIps : CountOf(route', ip) <= CountOf(route, ip)]_vars
    /\ [](route.records = route.successes)
    /\ [](\A x \in RouteHandlers :
          LET hd == route.h[x] IN
          /\ hd.recorded <= 1
          /\ hd.generated <= 1
          /\ hd.pc # "responded" => hd.recorded = 0
          /\ hd.pc = "responded" =>
                /\ hd.response[1].success <=> hd.recorded = 1
                /\ hd.response[1].success => hd.generated = 1
                /\ (hd.response[1].status = 429 /\ hd.response[1].code = "RATE_LIMIT"
                      /\ hd.generated = 0) => hd.recorded = 0
                /\ hd.response[1].code = "VALIDATION_ERROR" =>
                      (hd.generated = 0 /\ hd.recorded = 0))

\* One handler answered a failed generation and the other a denied request,
\* after one success was recorded.
FailureAndDenialAnswered ==
    /\ route.records = 1
    /\ route.h[1].pc = "responded"
    /\ route.h[1].generated = 1
    /\ ~route.h[1].response[1].success
    /\ route.h[2].pc = "responded"
    /\ route.h[2].generated = 0
    /\ route.h[2].response[1].code = "RATE_LIMIT"

\* C26: once a generation with prompt P and style S has succeeded, a later
\* regenerate() sends a request with the prompt and style that generation
\* sent, whatever setPrompt and setStyle did in between and however often
\* it is repeated; while none has succeeded (since mount or reset) it sends
\* the request of the current state.
RegenerateSendsSameRequest ==
    [][\A i \in 1..Len(ug'.pending) :
          (i > Len(ug.pending) /\ ug'.pending[i].by = "regenerate") =>
              [prompt |-> ug'.pending[i].prompt, style |-> ug'.pending[i].style]
                  = (IF ug.lastSuccess # None THEN ug.lastSuccess[1]
                     ELSE RequestOfState(ug))]_vars

====
